---------------------------- MODULE Spec2Model ----------------------------
(***************************************************************************)
(* Model of crates/attestation/src/measurements.rs: the measurement value  *)
(* types (Measurements, FullMeasurements), their hex counterparts          *)
(* (MeasurementsHex, FullMeasurementsHex), the From conversions between    *)
(* them, the derived equality and ordering of MeasurementsHex, and the     *)
(* extraction of Measurements from a verified quote report.                *)
(*                                                                         *)
(* Every operation is a pure function.  A behaviour starts from an input   *)
(* value (input) and applies operations one after the other, each to the   *)
(* value at hand: the input, or what the previous operation returned.  The *)
(* state records the last operation applied (op), the value it was applied *)
(* to (arg) and what it returned (res).                                    *)
(*                                                                         *)
(* HexBytes<N> is defined in crate::tcb_info.  measurements.rs             *)
(* dereferences a HexBytes<N> to a [u8; N] (`*hex.mrtd`), so the type      *)
(* stores the N bytes; it is modelled as a wrapper around the byte array,  *)
(* and its textual (hex string) form by the HexCodec contract: Encode and  *)
(* Decode.                                                                 *)
(***************************************************************************)
EXTENDS Integers, Sequences, FiniteSets

VARIABLES input, op, arg, res

vars == <<input, op, arg, res>>

(***************************************************************************)
(* Bounds of the model.                                                    *)
(***************************************************************************)
\* digests are drawn from the seeds 0..MaxSeed (seed 0 is the all-zero digest)
MaxSeed == 3
\* the two values a comparison is applied to draw their fields from the
\* MaxPairSeed + 1 highest seeds
MaxPairSeed == 1
\* how many characters are cut from a well-formed hex string to get a short one
MaxCut == 2
\* the positions 1..MaxBadPos of a hex string that receive a non-hex character
MaxBadPos == 2

(***************************************************************************)
(* Program constants.                                                      *)
(***************************************************************************)
\* [u8; 48]: mrtd, rtmr0, rtmr1, rtmr2, key_provider_event_digest
DigestLen == 48
\* [u8; 32]: app_compose_hash_payload
PayloadLen == 32
\* u8
ByteRange == 256

Seeds == 0..MaxSeed

\* [0; n]
Zeros(n) == [i \in 1..n |-> 0]

\* The byte arrays the inputs are drawn from.  Seed 0 is all-zero; a seed s > 0
\* starts with s-1 zero bytes, so that distinct digests share prefixes, and the
\* order of the digests is not the order of the seeds.
Digest(n, s) == [i \in 1..n |-> IF i < s THEN 0 ELSE (s * (i + 5) * 37) % ByteRange]

Digests(n) == {Digest(n, s) : s \in Seeds}

IsBytes(v, n) == DOMAIN v = 1..n /\ \A i \in 1..n : v[i] \in 0..(ByteRange - 1)

(***************************************************************************)
(* HexBytes<N> (crate::tcb_info): a wrapper around [u8; N].                *)
(***************************************************************************)
\* HexBytes::from(bytes)
HexBytesFrom(bytes) == [bytes |-> bytes]

\* *hex  (Deref<Target = [u8; N]>)
HexBytesDeref(h) == h.bytes

IsHexBytes(h, n) == DOMAIN h = {"bytes"} /\ IsBytes(h.bytes, n)

\* Ord of HexBytes<N>: the order of the byte arrays, first differing byte decides
HexBytesCmp(a, b) ==
    LET D == {i \in 1..Len(a.bytes) : a.bytes[i] # b.bytes[i]} IN
    IF D = {} THEN "Equal"
    ELSE LET k == CHOOSE i \in D : \A j \in D : i <= j IN
         IF a.bytes[k] < b.bytes[k] THEN "Less" ELSE "Greater"

\* PartialEq of HexBytes<N>
HexBytesEq(a, b) == a.bytes = b.bytes

(***************************************************************************)
(* The value types.                                                        *)
(***************************************************************************)
MeasurementsFields == {"mrtd", "rtmr0", "rtmr1", "rtmr2"}

FullFields == {"rtmrs", "key_provider_event_digest", "app_compose_hash_payload"}

\* struct Measurements
Measurements ==
    [mrtd : Digests(DigestLen), rtmr0 : Digests(DigestLen),
     rtmr1 : Digests(DigestLen), rtmr2 : Digests(DigestLen)]

\* struct FullMeasurements
FullMeasurements ==
    [rtmrs : Measurements,
     key_provider_event_digest : Digests(DigestLen),
     app_compose_hash_payload : Digests(PayloadLen)]

HexDigests(n) == {HexBytesFrom(b) : b \in Digests(n)}

PairDigests(n) == {HexBytesFrom(Digest(n, s)) : s \in {t \in Seeds : t + MaxPairSeed >= MaxSeed}}

\* the MeasurementsHex values that are compared with each other
ComparedHex ==
    [mrtd : PairDigests(DigestLen), rtmr0 : PairDigests(DigestLen),
     rtmr1 : PairDigests(DigestLen), rtmr2 : PairDigests(DigestLen)]

\* struct MeasurementsHex
MeasurementsHex ==
    [mrtd : HexDigests(DigestLen), rtmr0 : HexDigests(DigestLen),
     rtmr1 : HexDigests(DigestLen), rtmr2 : HexDigests(DigestLen)]

\* struct FullMeasurementsHex
FullMeasurementsHex ==
    [rtmrs : MeasurementsHex,
     key_provider_event_digest : HexDigests(DigestLen),
     app_compose_hash_payload : HexDigests(PayloadLen)]

IsMeasurements(v) ==
    /\ DOMAIN v = MeasurementsFields
    /\ \A f \in MeasurementsFields : IsBytes(v[f], DigestLen)

IsMeasurementsHex(v) ==
    /\ DOMAIN v = MeasurementsFields
    /\ \A f \in MeasurementsFields : IsHexBytes(v[f], DigestLen)

IsFullMeasurements(v) ==
    /\ DOMAIN v = FullFields
    /\ IsMeasurements(v.rtmrs)
    /\ IsBytes(v.key_provider_event_digest, DigestLen)
    /\ IsBytes(v.app_compose_hash_payload, PayloadLen)

IsFullMeasurementsHex(v) ==
    /\ DOMAIN v = FullFields
    /\ IsMeasurementsHex(v.rtmrs)
    /\ IsHexBytes(v.key_provider_event_digest, DigestLen)
    /\ IsHexBytes(v.app_compose_hash_payload, PayloadLen)

(***************************************************************************)
(* Default values.                                                         *)
(***************************************************************************)
\* A default whose rtmr2 is filled with ones.
MeasurementsDefault_OnesInRtmr2 ==
    [mrtd |-> Zeros(DigestLen), rtmr0 |-> Zeros(DigestLen),
     rtmr1 |-> Zeros(DigestLen), rtmr2 |-> [i \in 1..DigestLen |-> 1]]

\* impl Default for Measurements
MeasurementsDefault ==
    [mrtd |-> Zeros(DigestLen), rtmr0 |-> Zeros(DigestLen),
     rtmr1 |-> Zeros(DigestLen), rtmr2 |-> Zeros(DigestLen)]

\* A hex default whose mrtd is filled with ones.
MeasurementsHexDefault_OnesInMrtd ==
    [mrtd |-> HexBytesFrom([i \in 1..DigestLen |-> 1]), rtmr0 |-> HexBytesFrom(Zeros(DigestLen)),
     rtmr1 |-> HexBytesFrom(Zeros(DigestLen)), rtmr2 |-> HexBytesFrom(Zeros(DigestLen))]

\* impl Default for MeasurementsHex
MeasurementsHexDefault ==
    [mrtd |-> HexBytesFrom(Zeros(DigestLen)), rtmr0 |-> HexBytesFrom(Zeros(DigestLen)),
     rtmr1 |-> HexBytesFrom(Zeros(DigestLen)), rtmr2 |-> HexBytesFrom(Zeros(DigestLen))]

\* impl Default for FullMeasurementsHex
FullMeasurementsHexDefault ==
    [rtmrs |-> MeasurementsHexDefault,
     key_provider_event_digest |-> HexBytesFrom(Zeros(DigestLen)),
     app_compose_hash_payload |-> HexBytesFrom(Zeros(PayloadLen))]

(***************************************************************************)
(* Conversions between the binary and the hex types.                       *)
(***************************************************************************)
\* A conversion that fills rtmr1 and rtmr2 from each other's field.
MeasurementsFromHex_Swapped(hex) ==
    [mrtd |-> HexBytesDeref(hex.mrtd), rtmr0 |-> HexBytesDeref(hex.rtmr0),
     rtmr1 |-> HexBytesDeref(hex.rtmr2), rtmr2 |-> HexBytesDeref(hex.rtmr1)]

\* impl From<MeasurementsHex> for Measurements
MeasurementsFromHex(hex) ==
    [mrtd |-> HexBytesDeref(hex.mrtd), rtmr0 |-> HexBytesDeref(hex.rtmr0),
     rtmr1 |-> HexBytesDeref(hex.rtmr1), rtmr2 |-> HexBytesDeref(hex.rtmr2)]

\* impl From<Measurements> for MeasurementsHex
MeasurementsHexFromMeasurements(measurements) ==
    [mrtd |-> HexBytesFrom(measurements.mrtd), rtmr0 |-> HexBytesFrom(measurements.rtmr0),
     rtmr1 |-> HexBytesFrom(measurements.rtmr1), rtmr2 |-> HexBytesFrom(measurements.rtmr2)]

\* A conversion that fills the two auxiliary digests from each other's field.
FullMeasurementsFromHex_Misplaced(hex) ==
    [rtmrs |-> MeasurementsFromHex(hex.rtmrs),
     key_provider_event_digest |-> HexBytesDeref(hex.app_compose_hash_payload),
     app_compose_hash_payload |-> HexBytesDeref(hex.key_provider_event_digest)]

\* impl From<FullMeasurementsHex> for FullMeasurements
FullMeasurementsFromHex(hex) ==
    [rtmrs |-> MeasurementsFromHex(hex.rtmrs),
     key_provider_event_digest |-> HexBytesDeref(hex.key_provider_event_digest),
     app_compose_hash_payload |-> HexBytesDeref(hex.app_compose_hash_payload)]

\* A conversion that fills key_provider_event_digest from rtmrs.rtmr2.
FullMeasurementsHexFromMeasurements_WrongDigest(measurements) ==
    [rtmrs |-> MeasurementsHexFromMeasurements(measurements.rtmrs),
     key_provider_event_digest |-> HexBytesFrom(measurements.rtmrs.rtmr2),
     app_compose_hash_payload |-> HexBytesFrom(measurements.app_compose_hash_payload)]

\* impl From<FullMeasurements> for FullMeasurementsHex
FullMeasurementsHexFromMeasurements(measurements) ==
    [rtmrs |-> MeasurementsHexFromMeasurements(measurements.rtmrs),
     key_provider_event_digest |-> HexBytesFrom(measurements.key_provider_event_digest),
     app_compose_hash_payload |-> HexBytesFrom(measurements.app_compose_hash_payload)]

(***************************************************************************)
(* Derived equality and ordering of MeasurementsHex.                       *)
(***************************************************************************)
\* #[derive(PartialEq, Eq)] on MeasurementsHex: every field equal
MeasurementsHexEq(a, b) ==
    /\ HexBytesEq(a.mrtd, b.mrtd)
    /\ HexBytesEq(a.rtmr0, b.rtmr0)
    /\ HexBytesEq(a.rtmr1, b.rtmr1)
    /\ HexBytesEq(a.rtmr2, b.rtmr2)

\* The same comparison chain with rtmr0 compared before mrtd.
MeasurementsHexCmp_Rtmr0First(a, b) ==
    LET c0 == HexBytesCmp(a.rtmr0, b.rtmr0) IN
    IF c0 # "Equal" THEN c0 ELSE
    LET c1 == HexBytesCmp(a.mrtd, b.mrtd) IN
    IF c1 # "Equal" THEN c1 ELSE
    LET c2 == HexBytesCmp(a.rtmr1, b.rtmr1) IN
    IF c2 # "Equal" THEN c2 ELSE HexBytesCmp(a.rtmr2, b.rtmr2)

\* #[derive(PartialOrd, Ord)] on MeasurementsHex: the fields are compared in
\* declaration order, and the first one that is not Equal is the result
MeasurementsHexCmp(a, b) ==
    LET c0 == HexBytesCmp(a.mrtd, b.mrtd) IN
    IF c0 # "Equal" THEN c0 ELSE
    LET c1 == HexBytesCmp(a.rtmr0, b.rtmr0) IN
    IF c1 # "Equal" THEN c1 ELSE
    LET c2 == HexBytesCmp(a.rtmr1, b.rtmr1) IN
    IF c2 # "Equal" THEN c2 ELSE HexBytesCmp(a.rtmr2, b.rtmr2)

\* a < b, a == b, a > b as the derived traits answer them
MeasurementsHexCompare(a, b) ==
    [lt |-> MeasurementsHexCmp(a, b) = "Less",
     eq |-> MeasurementsHexEq(a, b),
     gt |-> MeasurementsHexCmp(a, b) = "Greater"]

(***************************************************************************)
(* Results and errors.                                                     *)
(***************************************************************************)
Ok(v) == [tag |-> "Ok", val |-> v]

Err(e) == [tag |-> "Err", err |-> e]

\* MeasurementsError::NoTd10Report
NoTd10Report == [kind |-> "NoTd10Report"]

\* MeasurementsError::InvalidHexValue(String, String)
InvalidHexValue(field, value) == [kind |-> "InvalidHexValue", field |-> field, value |-> value]

\* MeasurementsError::InvalidLength(String, usize)
InvalidLength(field, length) == [kind |-> "InvalidLength", field |-> field, length |-> length]

(***************************************************************************)
(* Extraction from a verified report.                                      *)
(***************************************************************************)
\* the formats of a report body: TD10, and any other one
BodyKinds == {"TD10", "Other"}

\* the measurement block of a report body
TdReports ==
    [mr_td : Digests(DigestLen), rt_mr0 : Digests(DigestLen),
     rt_mr1 : Digests(DigestLen), rt_mr2 : Digests(DigestLen)]

\* dcap_qvl::verify::VerifiedReport, as far as try_from reads it
VerifiedReports == [report : [kind : BodyKinds, body : TdReports]]

\* report.as_td10(): Some(body) for a TD10 body, None otherwise.
\* An Option is a sequence of at most one element.
AsTd10(report) == IF report.kind = "TD10" THEN <<report.body>> ELSE <<>>

\* A try_from that fills rtmr1 and rtmr2 from each other's register.
TryFromVerifiedReport_Swapped(verified_report) ==
    LET td10 == AsTd10(verified_report.report) IN
    IF td10 = <<>> THEN Err(NoTd10Report)
    ELSE Ok([rtmr0 |-> td10[1].rt_mr0, rtmr1 |-> td10[1].rt_mr2,
             rtmr2 |-> td10[1].rt_mr1, mrtd |-> td10[1].mr_td])

\* A try_from that answers a body without a TD10 block with the default value.
TryFromVerifiedReport_DefaultOnNone(verified_report) ==
    LET td10 == AsTd10(verified_report.report) IN
    IF td10 = <<>> THEN Ok(MeasurementsDefault)
    ELSE Ok([rtmr0 |-> td10[1].rt_mr0, rtmr1 |-> td10[1].rt_mr1,
             rtmr2 |-> td10[1].rt_mr2, mrtd |-> td10[1].mr_td])

\* A try_from that returns the default value whatever the report holds.
TryFromVerifiedReport_Zeroed(verified_report) ==
    LET td10 == AsTd10(verified_report.report) IN
    IF td10 = <<>> THEN Err(NoTd10Report) ELSE Ok(MeasurementsDefault)

\* impl TryFrom<dcap_qvl::verify::VerifiedReport> for Measurements
TryFromVerifiedReport(verified_report) ==
    LET td10 == AsTd10(verified_report.report) IN
    IF td10 = <<>> THEN Err(NoTd10Report)
    ELSE Ok([rtmr0 |-> td10[1].rt_mr0, rtmr1 |-> td10[1].rt_mr1,
             rtmr2 |-> td10[1].rt_mr2, mrtd |-> td10[1].mr_td])

(***************************************************************************)
(* HexCodec: the textual form of a HexBytes<N>.  A hex string is a         *)
(* sequence of one-character strings.                                      *)
(***************************************************************************)
LowerDigits == <<"0", "1", "2", "3", "4", "5", "6", "7", "8", "9", "a", "b", "c", "d", "e", "f">>

UpperDigits == <<"0", "1", "2", "3", "4", "5", "6", "7", "8", "9", "A", "B", "C", "D", "E", "F">>

IsHexDigit(c) == \E k \in 1..16 : LowerDigits[k] = c \/ UpperDigits[k] = c

HexVal(c) == (CHOOSE k \in 1..16 : LowerDigits[k] = c \/ UpperDigits[k] = c) - 1

\* encode: two lowercase digits per byte, high nibble first
Encode(h) ==
    [i \in 1..(2 * Len(h.bytes)) |->
        LET b == h.bytes[(i + 1) \div 2] IN
        LowerDigits[(IF i % 2 = 1 THEN b \div 16 ELSE b % 16) + 1]]

\* A decode that reports the number of bytes the string stands for, not the
\* number of its characters.
Decode_ByteCount(field, n, text) ==
    IF Len(text) # 2 * n THEN Err(InvalidLength(field, Len(text) \div 2))
    ELSE IF \E i \in 1..Len(text) : ~IsHexDigit(text[i])
         THEN Err(InvalidHexValue(field, text))
         ELSE Ok(HexBytesFrom([i \in 1..n |->
                    HexVal(text[2 * i - 1]) * 16 + HexVal(text[2 * i])]))

\* decode a hex string into the n bytes of `field`
Decode(field, n, text) ==
    IF Len(text) # 2 * n THEN Err(InvalidLength(field, Len(text)))
    ELSE IF \E i \in 1..Len(text) : ~IsHexDigit(text[i])
         THEN Err(InvalidHexValue(field, text))
         ELSE Ok(HexBytesFrom([i \in 1..n |->
                    HexVal(text[2 * i - 1]) * 16 + HexVal(text[2 * i])]))

FieldNames ==
    {"mrtd", "rtmr0", "rtmr1", "rtmr2",
     "key_provider_event_digest", "app_compose_hash_payload"}

\* the width in bytes of a field
FieldWidth(field) == IF field = "app_compose_hash_payload" THEN PayloadLen ELSE DigestLen

Upper(text) ==
    [i \in 1..Len(text) |->
        IF \E k \in 1..16 : LowerDigits[k] = text[i]
        THEN UpperDigits[CHOOSE k \in 1..16 : LowerDigits[k] = text[i]]
        ELSE text[i]]

\* The hex strings offered for an n-byte field: well formed ones in lower and
\* upper case, too short and too long ones, and ones with a non-hex character.
Texts(n) ==
    LET valid == {Encode(h) : h \in HexDigests(n)} IN
    valid
    \cup {Upper(t) : t \in valid}
    \cup {SubSeq(t, 1, Len(t) - k) : t \in valid, k \in 1..MaxCut}
    \cup {t \o <<"0">> : t \in valid}
    \cup {[t EXCEPT ![p] = "g"] : t \in valid, p \in 1..MaxBadPos}
    \cup {SubSeq([t EXCEPT ![1] = "g"], 1, Len(t) - 1) : t \in valid}
    \cup {<<>>}

(***************************************************************************)
(* State machine.                                                          *)
(***************************************************************************)
\* The values a behaviour may start from, each tagged with its type.
IsInput(v) ==
    \/ v = [kind |-> "Unit", val |-> <<>>]
    \/ \E m \in Measurements : v = [kind |-> "Measurements", val |-> m]
    \/ \E h \in MeasurementsHex : v = [kind |-> "MeasurementsHex", val |-> h]
    \/ \E m \in FullMeasurements : v = [kind |-> "FullMeasurements", val |-> m]
    \/ \E h \in FullMeasurementsHex : v = [kind |-> "FullMeasurementsHex", val |-> h]
    \/ \E r \in VerifiedReports : v = [kind |-> "VerifiedReport", val |-> r]
    \/ \E a \in ComparedHex, b \in ComparedHex :
            v = [kind |-> "MeasurementsHexPair", val |-> <<a, b>>]
    \/ \E h \in HexDigests(DigestLen) \cup HexDigests(PayloadLen) :
            v = [kind |-> "HexBytes", val |-> h]
    \/ \E f \in FieldNames, t \in Texts(DigestLen) \cup Texts(PayloadLen) :
            v = [kind |-> "HexText", val |-> [field |-> f, text |-> t]]

\* the type of what an operation returns
OutKind(o) ==
    CASE o \in {"Measurements::default", "Measurements::from"} -> "Measurements"
      [] o \in {"MeasurementsHex::default", "MeasurementsHex::from"} -> "MeasurementsHex"
      [] o = "FullMeasurements::from" -> "FullMeasurements"
      [] o \in {"FullMeasurementsHex::default", "FullMeasurementsHex::from"} -> "FullMeasurementsHex"
      [] OTHER -> "Final"

\* the value at hand: the input, or what the last operation returned
Cur == IF op = "init" THEN input ELSE [kind |-> OutKind(op), val |-> res]

Init == IsInput(input) /\ op = "init" /\ arg = <<>> /\ res = <<>>

Apply(name, a, r) == op' = name /\ arg' = a /\ res' = r /\ UNCHANGED input

\* Measurements::default()
DefaultMeasurements ==
    /\ Cur.kind = "Unit"
    /\ Apply("Measurements::default", <<>>, MeasurementsDefault)

\* MeasurementsHex::default()
DefaultMeasurementsHex ==
    /\ Cur.kind = "Unit"
    /\ Apply("MeasurementsHex::default", <<>>, MeasurementsHexDefault)

\* FullMeasurementsHex::default()
DefaultFullMeasurementsHex ==
    /\ Cur.kind = "Unit"
    /\ Apply("FullMeasurementsHex::default", <<>>, FullMeasurementsHexDefault)

\* Measurements::from(hex)
ConvertMeasurementsFromHex ==
    /\ Cur.kind = "MeasurementsHex"
    /\ Apply("Measurements::from", Cur.val, MeasurementsFromHex(Cur.val))

\* MeasurementsHex::from(measurements)
ConvertMeasurementsHexFromMeasurements ==
    /\ Cur.kind = "Measurements"
    /\ Apply("MeasurementsHex::from", Cur.val, MeasurementsHexFromMeasurements(Cur.val))

\* FullMeasurements::from(hex)
ConvertFullMeasurementsFromHex ==
    /\ Cur.kind = "FullMeasurementsHex"
    /\ Apply("FullMeasurements::from", Cur.val, FullMeasurementsFromHex(Cur.val))

\* FullMeasurementsHex::from(measurements)
ConvertFullMeasurementsHexFromMeasurements ==
    /\ Cur.kind = "FullMeasurements"
    /\ Apply("FullMeasurementsHex::from", Cur.val,
             FullMeasurementsHexFromMeasurements(Cur.val))

\* Measurements::try_from(verified_report)
Extract ==
    /\ Cur.kind = "VerifiedReport"
    /\ Apply("Measurements::try_from", Cur.val, TryFromVerifiedReport(Cur.val))

\* a < b, a == b, a > b on two MeasurementsHex
Compare ==
    /\ Cur.kind = "MeasurementsHexPair"
    /\ Apply("MeasurementsHex::cmp", Cur.val, MeasurementsHexCompare(Cur.val[1], Cur.val[2]))

\* a hex string is decoded into the HexBytes of a field
DecodeText ==
    /\ Cur.kind = "HexText"
    /\ Apply("HexBytes::decode", Cur.val,
             Decode(Cur.val.field, FieldWidth(Cur.val.field), Cur.val.text))

\* a HexBytes is encoded as a hex string
EncodeText ==
    /\ Cur.kind = "HexBytes"
    /\ Apply("HexBytes::encode", Cur.val, Encode(Cur.val))

Next ==
    \/ DefaultMeasurements
    \/ DefaultMeasurementsHex
    \/ DefaultFullMeasurementsHex
    \/ ConvertMeasurementsFromHex
    \/ ConvertMeasurementsHexFromMeasurements
    \/ ConvertFullMeasurementsFromHex
    \/ ConvertFullMeasurementsHexFromMeasurements
    \/ Extract
    \/ Compare
    \/ DecodeText
    \/ EncodeText

Spec == Init /\ [][Next]_vars


(***************************************************************************)
(* Properties.                                                             *)
(***************************************************************************)
Registers == {"mr_td", "rt_mr0", "rt_mr1", "rt_mr2"}

\* the fields of MeasurementsHex in declaration order
FieldOrder == <<"mrtd", "rtmr0", "rtmr1", "rtmr2">>

PairwiseDistinct(m) ==
    \A j \in 1..4, k \in 1..4 : j # k => m[FieldOrder[j]] # m[FieldOrder[k]]

\* C1: extraction success.  For every verified report whose body is TD10,
\* try_from returns Ok with mrtd = mr_td, rtmr0 = rt_mr0, rtmr1 = rt_mr1 and
\* rtmr2 = rt_mr2, each copied verbatim.
C1_ExtractionSuccess ==
    (op = "Measurements::try_from" /\ arg.report.kind = "TD10") =>
        /\ res.tag = "Ok"
        /\ res.val.mrtd = arg.report.body.mr_td
        /\ res.val.rtmr0 = arg.report.body.rt_mr0
        /\ res.val.rtmr1 = arg.report.body.rt_mr1
        /\ res.val.rtmr2 = arg.report.body.rt_mr2
        /\ DOMAIN res.val = MeasurementsFields

\* a TD10 report with four different registers has been extracted
C1_Witness ==
    /\ op = "Measurements::try_from"
    /\ arg.report.kind = "TD10"
    /\ \A f \in Registers, g \in Registers :
            f # g => arg.report.body[f] # arg.report.body[g]
    /\ res.tag = "Ok"

\* C2: extraction rejection.  For every verified report whose body is not
\* TD10, try_from returns the error NoTd10Report and no Measurements at all.
C2_ExtractionRejection ==
    (op = "Measurements::try_from" /\ arg.report.kind # "TD10") =>
        /\ res.tag = "Err"
        /\ res.err.kind = "NoTd10Report"
        /\ DOMAIN res = {"tag", "err"}

\* a report of another format, with non-zero registers, has been rejected
C2_Witness ==
    /\ op = "Measurements::try_from"
    /\ arg.report.kind = "Other"
    /\ \A f \in Registers : arg.report.body[f] # Zeros(DigestLen)
    /\ res.tag = "Err"

\* C3: binary <-> hex equivalence.  A Measurements converted to
\* MeasurementsHex and back is equal, field by field, to the original.
C3_RoundTrip ==
    (input.kind = "Measurements" /\ op = "Measurements::from") =>
        /\ res.mrtd = input.val.mrtd
        /\ res.rtmr0 = input.val.rtmr0
        /\ res.rtmr1 = input.val.rtmr1
        /\ res.rtmr2 = input.val.rtmr2

\* a Measurements with four different fields has made the round trip
C3_Witness ==
    /\ input.kind = "Measurements"
    /\ op = "Measurements::from"
    /\ PairwiseDistinct(input.val)
    /\ arg = MeasurementsHexFromMeasurements(input.val)

\* a genuine report: none of its registers is the all-zero digest
Genuine(verified_report) ==
    \A f \in Registers : verified_report.report.body[f] # Zeros(DigestLen)

\* C4: the default sentinel is never extracted.  For every genuine verified
\* report, try_from does not return the all-zero Measurements::default().
C4_DefaultNeverExtracted ==
    (op = "Measurements::try_from" /\ Genuine(arg) /\ res.tag = "Ok") =>
        res.val # MeasurementsDefault

\* a genuine TD10 report has been extracted
C4_Witness ==
    /\ op = "Measurements::try_from"
    /\ arg.report.kind = "TD10"
    /\ Genuine(arg)
    /\ res.tag = "Ok"

\* an InvalidLength or InvalidHexValue error has been returned
HexCodecErrorReturned ==
    /\ op \in {"HexBytes::decode", "Measurements::try_from"}
    /\ res.tag = "Err"
    /\ res.err.kind \in {"InvalidLength", "InvalidHexValue"}

FirstDifferenceLess(a, b) ==
    \E k \in 1..4 :
        /\ \A j \in 1..(k - 1) : a[FieldOrder[j]] = b[FieldOrder[j]]
        /\ HexBytesCmp(a[FieldOrder[k]], b[FieldOrder[k]]) = "Less"

\* C6: ordering totality.  For two MeasurementsHex a and b exactly one of
\* a < b, a == b, a > b holds; the order is the lexicographic one over mrtd,
\* rtmr0, rtmr1, rtmr2; and a == b exactly when the four fields are equal.
C6_OrderingTotality ==
    op = "MeasurementsHex::cmp" =>
        LET a == arg[1]
            b == arg[2]
        IN  /\ Cardinality({x \in {"lt", "eq", "gt"} : res[x]}) = 1
            /\ res.eq <=> \A f \in MeasurementsFields : a[f] = b[f]
            /\ res.lt <=> FirstDifferenceLess(a, b)
            /\ res.gt <=> FirstDifferenceLess(b, a)

\* two values with equal mrtd were compared: rtmr0 says a < b, the later
\* fields say the opposite, and a < b was the answer
C6_Witness ==
    /\ op = "MeasurementsHex::cmp"
    /\ arg[1].mrtd = arg[2].mrtd
    /\ HexBytesCmp(arg[1].rtmr0, arg[2].rtmr0) = "Less"
    /\ HexBytesCmp(arg[1].rtmr1, arg[2].rtmr1) = "Greater"
    /\ HexBytesCmp(arg[1].rtmr2, arg[2].rtmr2) = "Greater"
    /\ res.lt

\* C7: the default Measurements has each of mrtd, rtmr0, rtmr1 and rtmr2
\* equal to exactly 48 zero bytes.
C7_DefaultAllZero ==
    op = "Measurements::default" =>
        /\ DOMAIN res = MeasurementsFields
        /\ \A f \in MeasurementsFields :
              /\ Len(res[f]) = 48
              /\ \A i \in 1..Len(res[f]) : res[f][i] = 0

\* Measurements::default() has been called
C7_Witness ==
    /\ op = "Measurements::default"
    /\ IsMeasurements(res)

\* C8: length validation.  Decoding a hex string whose length is not 2N
\* into an N-byte field yields InvalidLength with the name of the field and
\* the actual number of characters, and no bytes.
C8_LengthValidation ==
    (op = "HexBytes::decode" /\ Len(arg.text) # 2 * FieldWidth(arg.field)) =>
        /\ DOMAIN res = {"tag", "err"}
        /\ res.tag = "Err"
        /\ res.err = [kind |-> "InvalidLength", field |-> arg.field,
                      length |-> Len(arg.text)]

\* a string of 2 * 48 hex digits was rejected for the 32-byte field
C8_Witness ==
    /\ op = "HexBytes::decode"
    /\ arg.field = "app_compose_hash_payload"
    /\ Len(arg.text) = 2 * DigestLen
    /\ \A i \in 1..Len(arg.text) : IsHexDigit(arg.text[i])
    /\ res.tag = "Err"
    /\ res.err.length = 2 * DigestLen

\* C9: field-wise lossless conversion of FullMeasurements.  The conversion to
\* FullMeasurementsHex maps each of the six fields to the hex field of the
\* same name, whole, and the conversion back returns the original value.
C9_FullFieldwiseLossless ==
    /\ op = "FullMeasurementsHex::from" =>
          /\ \A f \in MeasurementsFields :
                HexBytesDeref(res.rtmrs[f]) = arg.rtmrs[f]
          /\ HexBytesDeref(res.key_provider_event_digest) = arg.key_provider_event_digest
          /\ HexBytesDeref(res.app_compose_hash_payload) = arg.app_compose_hash_payload
          /\ Len(HexBytesDeref(res.key_provider_event_digest)) = 48
          /\ Len(HexBytesDeref(res.app_compose_hash_payload)) = 32
    /\ (input.kind = "FullMeasurements" /\ op = "FullMeasurements::from") =>
          res = input.val

\* a FullMeasurements with four different registers and a key-provider
\* digest that differs from rtmr2 has made the round trip
C9_Witness ==
    /\ input.kind = "FullMeasurements"
    /\ op = "FullMeasurements::from"
    /\ PairwiseDistinct(input.val.rtmrs)
    /\ input.val.key_provider_event_digest # input.val.rtmrs.rtmr2
    /\ input.val.key_provider_event_digest # Zeros(DigestLen)
    /\ input.val.app_compose_hash_payload # Zeros(PayloadLen)

AllZeroHex == [f \in MeasurementsFields |-> [bytes |-> [i \in 1..48 |-> 0]]]

\* C10: the defaults agree across representations.  MeasurementsHex::default()
\* is four all-zero 48-byte fields and equals the hex conversion of
\* Measurements::default(); converting it to binary yields the all-zero
\* Measurements; FullMeasurementsHex::default() has rtmrs equal to
\* MeasurementsHex::default(), an all-zero 48-byte key_provider_event_digest
\* and an all-zero 32-byte app_compose_hash_payload.
C10_DefaultsAgree ==
    /\ op = "MeasurementsHex::default" =>
          /\ res = AllZeroHex
          /\ res = MeasurementsHexFromMeasurements(MeasurementsDefault)
    /\ (input.kind = "Unit" /\ op = "MeasurementsHex::from") =>
          res = MeasurementsHexDefault
    /\ (input.kind = "Unit" /\ op = "Measurements::from") =>
          res = [f \in MeasurementsFields |-> [i \in 1..48 |-> 0]]
    /\ op = "FullMeasurementsHex::default" =>
          /\ res.rtmrs = MeasurementsHexDefault
          /\ res.rtmrs = AllZeroHex
          /\ res.key_provider_event_digest = [bytes |-> [i \in 1..48 |-> 0]]
          /\ res.app_compose_hash_payload = [bytes |-> [i \in 1..32 |-> 0]]

\* MeasurementsHex::default() has been converted to binary
C10_Witness ==
    /\ input.kind = "Unit"
    /\ op = "Measurements::from"
    /\ arg = MeasurementsHexDefault

=============================================================================
